---- MODULE Spec2Model ----
(***************************************************************************)
(* Model of the RooProxyPy reverse proxy (src/main.py): the three request  *)
(* handlers (chat completions, Anthropic messages, catch-all forward), the *)
(* body transforms they apply, the streaming relay and the lifecycle of    *)
(* the httpx client each exchange creates.                                 *)
(*                                                                         *)
(* JSON values are modelled by strings holding their JSON text; a field    *)
(* that is missing (Python's None from dict.get) is the value Absent.      *)
(* Byte strings are modelled by strings, so concatenation is \o.           *)
(***************************************************************************)
EXTENDS Naturals, Sequences, FiniteSets, TLC

\* ---------------------------------------------------------------- bounds
\* Largest number of chunks the upstream delivers on one stream.
MaxChunks == 2

\* ------------------------------------------------------- configuration
Absent == "<absent>"

ANTHROPIC_MODEL_MAP ==
    [k \in {"claude-haiku-4-5-20251001", "claude-opus-4-1-20250805",
            "claude-opus-4-20250514", "claude-opus-4-5-20251101",
            "claude-opus-4-6", "claude-sonnet-4-20250514",
            "claude-sonnet-4-5"} |->
        CASE k = "claude-haiku-4-5-20251001" -> "anthropic/claude-haiku-4.5"
          [] k = "claude-opus-4-1-20250805"  -> "anthropic/claude-opus-4.1"
          [] k = "claude-opus-4-20250514"    -> "anthropic/claude-opus-4"
          [] k = "claude-opus-4-5-20251101"  -> "anthropic/claude-opus-4.5"
          [] k = "claude-opus-4-6"           -> "anthropic/claude-opus-4.6"
          [] k = "claude-sonnet-4-20250514"  -> "anthropic/claude-sonnet-4"
          [] k = "claude-sonnet-4-5"         -> "anthropic/claude-sonnet-4.5"]

ENABLE_WEB_SEARCH == TRUE

\* A tool entry: isdict is FALSE for a list element that is not an object.
ZENMUX_WEB_SEARCH_TOOL ==
    [isdict |-> TRUE, type |-> "web_search_20250305", name |-> "web_search"]

API_KEY == ""

\* The module-level configuration, as the source sets it.
SourceConfig ==
    [API_KEY |-> API_KEY,
     ANTHROPIC_MODEL_MAP |-> ANTHROPIC_MODEL_MAP,
     ENABLE_WEB_SEARCH |-> ENABLE_WEB_SEARCH,
     ZENMUX_WEB_SEARCH_TOOL |-> ZENMUX_WEB_SEARCH_TOOL]

\* the module globals the handlers read
VARIABLE config

\* ------------------------------------------------------- request bodies
\* The fields of a body document the handlers look at.
NoTools == [kind |-> "absent", items |-> << >>]

EmptyDoc ==
    [model |-> Absent, stream |-> Absent, stream_options |-> Absent,
     tools |-> NoTools]

\* Inbound bodies: bytes that are not JSON, JSON that is not an object, and
\* JSON objects.
ModelInputs ==
    {Absent, "", "claude-opus-4-6", "unknown-model", "anthropic/claude-opus-4.6"}

StreamInputs == {Absent, "true", "false", "1"}

StreamOptionsInputs == {Absent, "null", "{}"}

OtherTool == [isdict |-> TRUE, type |-> "custom", name |-> "calc"]

ToolsInputs ==
    {NoTools,
     [kind |-> "nonlist", items |-> << >>],
     [kind |-> "list", items |-> <<OtherTool>>],
     [kind |-> "list", items |-> <<ZENMUX_WEB_SEARCH_TOOL>>]}

Docs ==
    [model : ModelInputs, stream : StreamInputs,
     stream_options : StreamOptionsInputs, tools : ToolsInputs]

Bodies ==
    {[kind |-> "unparseable", doc |-> EmptyDoc],
     [kind |-> "nondict", doc |-> EmptyDoc]}
    \cup {[kind |-> "dict", doc |-> d] : d \in Docs}

\* The bodies the Anthropic transform is explored on: more models and
\* more shapes of the tools field.
StringEntry ==
    [isdict |-> FALSE, type |-> "web_search_20250305", name |-> ""]

RenamedTool ==
    [isdict |-> TRUE, type |-> "web_search_20250305", name |-> "mine"]

TransformModels ==
    ModelInputs \cup {"claude-sonnet-4-5", "claude-haiku-4-5-20251001"}

TransformTools ==
    ToolsInputs
    \cup {[kind |-> "list", items |-> it] :
            it \in {<< >>, <<OtherTool, ZENMUX_WEB_SEARCH_TOOL>>,
                    <<StringEntry>>, <<RenamedTool>>,
                    <<ZENMUX_WEB_SEARCH_TOOL, OtherTool>>}}

TransformBodies ==
    {[kind |-> "unparseable", doc |-> EmptyDoc],
     [kind |-> "nondict", doc |-> EmptyDoc]}
    \cup {[kind |-> "dict", doc |-> d] :
            d \in [model : TransformModels, stream : StreamInputs,
                   stream_options : StreamOptionsInputs,
                   tools : TransformTools]}

NoBody == [kind |-> "none", doc |-> EmptyDoc]

\* Header names a caller sends, and the value each carries.
HeaderNames ==
    {"host", "Content-Length", "connection", "accept-encoding",
     "authorization", "x-api-key", "user-agent"}

InValue(k) ==
    CASE k = "authorization" -> "Bearer caller"
      [] k = "x-api-key" -> "caller-key"
      [] OTHER -> "v"

HeaderMaps == {[k \in S |-> InValue(k)] : S \in SUBSET HeaderNames}

NoHeaders == [k \in {} |-> ""]

\* the headers of the requests whose bodies and routes are explored
PlainHeaders ==
    [k \in {"host", "authorization", "user-agent"} |-> InValue(k)]

Methods == {"GET", "POST", "PUT", "DELETE", "OPTIONS", "HEAD"}

\* the paths FastAPI() registers for its own documentation
DocsPaths == {"/openapi.json", "/docs", "/docs/oauth2-redirect", "/redoc"}

Paths ==
    {"/v1/chat/completions", "/chat/completions", "/v1/messages",
     "/messages", "/v1/models", "/docs", "/openapi.json"}

\* bodies sent along when the routes are explored
RouteBodies ==
    {[kind |-> "dict", doc |-> [EmptyDoc EXCEPT !.model = "claude-opus-4-6",
                                                !.stream = st]] :
        st \in {"true", "false"}}

\* Inbound requests: every body on one path of each handler, and every
\* method and path with a few bodies.
Requests ==
    {[method |-> "POST", path |-> p, headers |-> PlainHeaders, body |-> b] :
        p \in {"/v1/chat/completions", "/v1/messages", "/v1/models"},
        b \in Bodies}
    \cup {[method |-> m, path |-> p, headers |-> PlainHeaders, body |-> b] :
            m \in Methods, p \in Paths, b \in RouteBodies}

\* the requests the header handling is explored on: every header map on
\* one path of each handler
HeaderRequests ==
    {[method |-> "POST", path |-> p, headers |-> h,
      body |-> [kind |-> "dict",
                doc |-> [EmptyDoc EXCEPT !.model = "claude-opus-4-6",
                                         !.stream = "true"]]] :
        p \in {"/v1/chat/completions", "/v1/messages", "/v1/models"},
        h \in HeaderMaps}

\* API_KEY left empty, or filled in
Credentials == {"", "sk-roo"}

\* the requests two exchanges in flight are explored on: a chat stream, a
\* buffered and a streamed Anthropic call, an Anthropic rejection, a
\* forwarded GET and a documentation page
ConcurrentRequests ==
    {[method |-> "POST", path |-> "/v1/chat/completions",
      headers |-> PlainHeaders,
      body |-> [kind |-> "dict",
                doc |-> [EmptyDoc EXCEPT !.model = "claude-opus-4-6",
                                         !.stream = "true"]]],
     [method |-> "POST", path |-> "/v1/messages", headers |-> PlainHeaders,
      body |-> [kind |-> "dict",
                doc |-> [EmptyDoc EXCEPT !.model = "claude-opus-4-6",
                                         !.stream = "false"]]],
     [method |-> "POST", path |-> "/v1/messages", headers |-> PlainHeaders,
      body |-> [kind |-> "dict",
                doc |-> [EmptyDoc EXCEPT !.model = "claude-opus-4-6",
                                         !.stream = "true"]]],
     [method |-> "POST", path |-> "/v1/messages", headers |-> PlainHeaders,
      body |-> [kind |-> "dict",
                doc |-> [EmptyDoc EXCEPT !.model = "unknown-model"]]],
     [method |-> "GET", path |-> "/v1/models", headers |-> PlainHeaders,
      body |-> NoBody],
     [method |-> "GET", path |-> "/docs", headers |-> PlainHeaders,
      body |-> NoBody]}

ConcurrentStatuses == {200, 429}

ConcurrentChunks == {"a", "b"}

NoRequest == [method |-> "", path |-> "", headers |-> NoHeaders]

\* What the upstream and the network can do.
Statuses == {200, 429}

Chunks == {"a", "b", "ab"}

Contents == {"", "ok"}

\* str(e) of the exceptions raised by the HTTP client.
ErrTexts == {"", "boom"}

\* The exchanges (one task per inbound request).
Exch == {1, 2}

Single == {1}

\* ----------------------------------------------------- pure functions
\* the routes registered on the app, in the order they are matched
route_of(method, path) ==
    IF method \in {"GET", "HEAD"} /\ path \in DocsPaths
    THEN "docs"
    ELSE IF method = "POST"
            /\ path \in {"/v1/chat/completions", "/chat/completions"}
    THEN "chat"
    ELSE IF method = "POST" /\ path \in {"/v1/messages", "/messages"}
    THEN "messages"
    ELSE IF method \in {"GET", "POST", "PUT", "DELETE", "OPTIONS", "HEAD"}
    THEN "proxy"
    ELSE "none"

\* str.lower() on the header names
Lower(k) == IF k = "Content-Length" THEN "content-length" ELSE k

\* the headers that are not forwarded
Dropped == {"host", "content-length", "connection", "accept-encoding"}

\* get_clean_headers, for the inbound headers h
get_clean_headers(h) ==
    LET kept == {k \in DOMAIN h : Lower(k) \notin Dropped}
    IN  IF config.API_KEY # ""
        THEN [k \in kept \cup {"authorization", "x-api-key"} |->
                 IF k = "authorization" THEN "Bearer " \o config.API_KEY
                 ELSE IF k = "x-api-key" THEN config.API_KEY
                 ELSE h[k]]
        ELSE [k \in kept |-> h[k]]

\* req_headers of proxy_all
proxy_headers(h) ==
    LET kept == {k \in DOMAIN h : Lower(k) \notin Dropped}
    IN  IF config.API_KEY # ""
        THEN [k \in kept \cup {"authorization"} |->
                 IF k = "authorization" THEN "Bearer " \o config.API_KEY
                 ELSE h[k]]
        ELSE [k \in kept |-> h[k]]

\* request.json() without the except branch
request_json_strict(raw) == raw

\* try: body = await request.json() / except: body = {}
request_json(raw) ==
    IF raw.kind = "unparseable" THEN [kind |-> "dict", doc |-> EmptyDoc]
    ELSE raw

\* Python truthiness of a model value (None and "" are falsy).
Truthy(v) == v \notin {Absent, ""}

\* a usage patch that tests the truthiness of stream
inject_usage_truthy(doc) ==
    IF doc.stream \in {"true", "1"} /\ doc.stream_options = Absent
    THEN [doc EXCEPT !.stream_options = "{\"include_usage\": true}"]
    ELSE doc

\* the usage patch of handle_chat_completions
inject_usage(doc) ==
    IF doc.stream = "true" /\ doc.stream_options = Absent
    THEN [doc EXCEPT !.stream_options = "{\"include_usage\": true}"]
    ELSE doc

\* {t.get("type") for t in tools if isinstance(t, dict)}
existing_types(items) ==
    {items[i].type : i \in {j \in 1..Len(items) : items[j].isdict}}

\* an injection that never looks at the tools already there
inject_tool_always(doc) ==
    IF config.ENABLE_WEB_SEARCH
    THEN LET tools == IF doc.tools.kind = "list" THEN doc.tools.items
                      ELSE << >>
         IN  [doc EXCEPT !.tools =
                 [kind |-> "list",
                  items |-> Append(tools, config.ZENMUX_WEB_SEARCH_TOOL)]]
    ELSE doc

\* the web-search injection of modify_anthropic_body
inject_tool(doc) ==
    IF config.ENABLE_WEB_SEARCH
    THEN LET tools == IF doc.tools.kind = "list" THEN doc.tools.items
                      ELSE << >>
         IN  IF config.ZENMUX_WEB_SEARCH_TOOL.type \notin existing_types(tools)
             THEN [doc EXCEPT !.tools =
                      [kind |-> "list",
                       items |-> Append(tools,
                                        config.ZENMUX_WEB_SEARCH_TOOL)]]
             ELSE doc
    ELSE doc

\* modify_anthropic_body that lets an unmatched model through
modify_anthropic_body_lenient(b) ==
    IF b.kind = "dict" /\ b.doc.model \in DOMAIN config.ANTHROPIC_MODEL_MAP
    THEN [body |-> [kind |-> "dict",
                    doc |-> inject_tool(
                        [b.doc EXCEPT !.model =
                            config.ANTHROPIC_MODEL_MAP[b.doc.model]])],
          unmatched |-> Absent]
    ELSE [body |-> b, unmatched |-> Absent]

\* modify_anthropic_body that forgets to write the mapped name
modify_anthropic_body_keepname(b) ==
    IF b.kind # "dict" THEN [body |-> b, unmatched |-> Absent]
    ELSE IF b.doc.model \notin DOMAIN config.ANTHROPIC_MODEL_MAP
         THEN [body |-> b, unmatched |-> b.doc.model]
         ELSE [body |-> [kind |-> "dict", doc |-> inject_tool(b.doc)],
               unmatched |-> Absent]

\* modify_anthropic_body that injects the tool before it checks the model
modify_anthropic_body_eager(b) ==
    IF b.kind # "dict" THEN [body |-> b, unmatched |-> Absent]
    ELSE IF b.doc.model \notin DOMAIN config.ANTHROPIC_MODEL_MAP
         THEN [body |-> [kind |-> "dict", doc |-> inject_tool(b.doc)],
               unmatched |-> b.doc.model]
         ELSE [body |-> [kind |-> "dict",
                         doc |-> inject_tool(
                             [b.doc EXCEPT !.model =
                                 config.ANTHROPIC_MODEL_MAP[b.doc.model]])],
               unmatched |-> Absent]

\* modify_anthropic_body: the pair (body, unmatched model name)
modify_anthropic_body(b) ==
    IF b.kind # "dict" THEN [body |-> b, unmatched |-> Absent]
    ELSE IF b.doc.model \notin DOMAIN config.ANTHROPIC_MODEL_MAP
         THEN [body |-> b, unmatched |-> b.doc.model]
         ELSE [body |-> [kind |-> "dict",
                         doc |-> inject_tool(
                             [b.doc EXCEPT !.model =
                                 config.ANTHROPIC_MODEL_MAP[b.doc.model]])],
               unmatched |-> Absent]

\* the JSON error body of the 400 response
not_found_error(unmatched) ==
    "{\"error\": \"Model '" \o unmatched
        \o "' not found in ANTHROPIC_MODEL_MAP\"}"

\* a 502 text that leaves the error description out
error_text_bare(prefix, err) == prefix

\* the text of a 502 response
error_text(prefix, err) == prefix \o ": " \o err

\* repr(e) in place of str(e)
error_chunk_repr(err) == "ReadError('" \o err \o "')"

\* str(e).encode(), the chunk the relay yields when a read raises
error_chunk(err) == err

RECURSIVE Concat(_)
Concat(s) == IF s = << >> THEN "" ELSE Head(s) \o Concat(Tail(s))

\* ---------------------------------------------------------------- state
VARIABLES
    pc,         \* where each exchange's handler is
    route,      \* "chat", "messages" or "proxy"
    request,    \* method, path and headers of the inbound request
    inbound,    \* the inbound body as received
    headers,    \* the headers of the outbound request
    body,       \* the body the handler builds the outbound request from
    conn,       \* the exchange's httpx client: "none", "open", "closed"
    opens,      \* clients created
    closes,     \* calls of client.aclose()
    sends,      \* calls of client.send() / client.request()
    ustatus,    \* status code of the upstream response, 0 before it
    ucontent,   \* body of the upstream response read in buffered mode
    resp,       \* the response handed to the caller
    upRead,     \* chunks read from upstream, in order
    delivered,  \* chunks yielded to the caller, in order
    relay,      \* the stream relay: "none", "running", "eos", "failed",
                \* "cancelled"
    raised      \* str(e) of the exception the HTTP client raised, if any

reqVars == <<route, request, inbound, headers, body>>
connVars == <<conn, opens, closes>>
relayVars == <<upRead, delivered, relay>>
upVars == <<ustatus, ucontent>>
vars == <<config, pc, route, request, inbound, headers, body, conn, opens,
          closes, sends, ustatus, ucontent, resp, upRead, delivered, relay,
          raised>>

NoResp == [kind |-> "none", status |-> 0, media |-> Absent, content |-> ""]

\* every exchange before its request arrives
Idle ==
    /\ pc = [e \in Exch |-> "idle"]
    /\ route = [e \in Exch |-> "none"]
    /\ request = [e \in Exch |-> NoRequest]
    /\ headers = [e \in Exch |-> NoHeaders]
    /\ inbound = [e \in Exch |-> NoBody]
    /\ body = [e \in Exch |-> NoBody]
    /\ conn = [e \in Exch |-> "none"]
    /\ opens = [e \in Exch |-> 0]
    /\ closes = [e \in Exch |-> 0]
    /\ sends = [e \in Exch |-> 0]
    /\ ustatus = [e \in Exch |-> 0]
    /\ ucontent = [e \in Exch |-> ""]
    /\ resp = [e \in Exch |-> NoResp]
    /\ upRead = [e \in Exch |-> << >>]
    /\ delivered = [e \in Exch |-> << >>]
    /\ relay = [e \in Exch |-> "none"]
    /\ raised = [e \in Exch |-> Absent]

Init ==
    /\ config = SourceConfig
    /\ Idle

\* ------------------------------------------------------ shared steps
\* httpx.AsyncClient(proxy=PROXY_URL, timeout=None)
create_client(e) ==
    /\ conn' = [conn EXCEPT ![e] = "open"]
    /\ opens' = [opens EXCEPT ![e] = @ + 1]
    /\ closes' = closes

\* a close on one client shared by all the exchanges
aclose_shared(e, n) ==
    /\ conn' = [x \in Exch |-> "closed"]
    /\ closes' = [closes EXCEPT ![e] = @ + n]
    /\ opens' = opens

\* await client.aclose(), n times in a row
aclose(e, n) ==
    /\ conn' = [conn EXCEPT ![e] = "closed"]
    /\ closes' = [closes EXCEPT ![e] = @ + n]
    /\ opens' = opens

\* Response(content=..., status_code=...) returned by a handler
respond(e, kind, status, media, content) ==
    resp' = [resp EXCEPT ![e] = [kind |-> kind, status |-> status,
                                 media |-> media, content |-> content]]

\* an exception no handler catches: the framework answers 500
crash(e) ==
    /\ respond(e, "crash", 500, Absent, "Internal Server Error")
    /\ pc' = [pc EXCEPT ![e] = "done"]

\* an except branch that answers 502 and forgets the client
fail_502_noclose(e, prefix, err) ==
    /\ raised' = [raised EXCEPT ![e] = err]
    /\ config' = config
    /\ UNCHANGED connVars
    /\ respond(e, "error", 502, Absent, error_text(prefix, err))
    /\ pc' = [pc EXCEPT ![e] = "done"]

\* the except branch of a handler: close the client, answer 502
fail_502(e, prefix, err) ==
    /\ raised' = [raised EXCEPT ![e] = err]
    /\ config' = config
    /\ aclose(e, 1)
    /\ respond(e, "error", 502, Absent, error_text(prefix, err))
    /\ pc' = [pc EXCEPT ![e] = "done"]

\* return StreamingResponse(stream_generator(r, ...), status_code=r.status_code,
\*                          media_type="text/event-stream", background=client.aclose)
start_stream(e, status) ==
    /\ ustatus' = [ustatus EXCEPT ![e] = status]
    /\ ucontent' = ucontent
    /\ respond(e, "stream", status, "text/event-stream", "")
    /\ relay' = [relay EXCEPT ![e] = "running"]
    /\ pc' = [pc EXCEPT ![e] = "streaming"]

\* ------------------------------------------------- OpenAI chat handler
\* the request req is the one exchange e is handling
Handling(e, req) ==
    /\ request[e].method = req.method
    /\ request[e].path = req.path
    /\ request[e].headers = req.headers

\* a route matches and its handler starts on the request line and headers
enter(e, req, r) ==
    /\ pc[e] = "idle"
    /\ route_of(req.method, req.path) = r
    /\ route' = [route EXCEPT ![e] = r]
    /\ request' = [request EXCEPT ![e] =
                      [method |-> req.method, path |-> req.path,
                       headers |-> req.headers]]

\* handle_chat_completions up to its wait for the body in request.json()
handle_chat_completions(e, req) ==
    /\ enter(e, req, "chat")
    /\ headers' = [headers EXCEPT ![e] = get_clean_headers(req.headers)]
    /\ pc' = [pc EXCEPT ![e] = "chat_json"]
    /\ UNCHANGED <<inbound, body, connVars, sends, upVars, resp, relayVars>>
    /\ UNCHANGED <<raised, config>>

\* the body has arrived: handle_chat_completions from request.json() to
\* the call of client.send
chat_json(e, req) ==
    LET b == request_json(req.body) IN
    /\ pc[e] = "chat_json"
    /\ Handling(e, req)
    /\ UNCHANGED <<route, request, headers>>
    /\ inbound' = [inbound EXCEPT ![e] = req.body]
    /\ IF b.kind # "dict"
       THEN \* body.get raises AttributeError
            /\ body' = [body EXCEPT ![e] = b]
            /\ crash(e)
            /\ UNCHANGED connVars
       ELSE /\ body' = [body EXCEPT ![e] =
                           [kind |-> "dict", doc |-> inject_usage(b.doc)]]
            /\ create_client(e)
            /\ pc' = [pc EXCEPT ![e] = "chat_send"]
            /\ UNCHANGED resp
    /\ UNCHANGED <<sends, upVars, relayVars>>
    /\ UNCHANGED <<raised, config>>

\* r = await client.send(req, stream=True) returns
chat_send_ok(e, status) ==
    /\ pc[e] = "chat_send"
    /\ sends' = [sends EXCEPT ![e] = @ + 1]
    /\ start_stream(e, status)
    /\ UNCHANGED <<reqVars, connVars, upRead, delivered>>
    /\ UNCHANGED <<raised, config>>

\* client.build_request raises: client.send is not called
chat_build_fail(e, err) ==
    /\ pc[e] = "chat_send"
    /\ sends' = sends
    /\ fail_502(e, "Connection Error", err)
    /\ UNCHANGED <<reqVars, upVars, relayVars>>

\* await client.send(req, stream=True) raises
chat_send_fail(e, err) ==
    /\ pc[e] = "chat_send"
    /\ sends' = [sends EXCEPT ![e] = @ + 1]
    /\ fail_502(e, "Connection Error", err)
    /\ UNCHANGED <<reqVars, upVars, relayVars>>

\* -------------------------------------------- Anthropic messages handler
\* handle_anthropic_messages up to its wait for the body in request.json()
handle_anthropic_messages(e, req) ==
    /\ enter(e, req, "messages")
    /\ headers' = [headers EXCEPT ![e] = get_clean_headers(req.headers)]
    /\ pc' = [pc EXCEPT ![e] = "msg_json"]
    /\ UNCHANGED <<inbound, body, connVars, sends, upVars, resp, relayVars>>
    /\ UNCHANGED <<raised, config>>

\* the second half of handle_anthropic_messages with the client created
\* before the model is looked at
messages_json_early(e, req) ==
    LET b == request_json(req.body)
        m == modify_anthropic_body(b)
    IN
    /\ pc[e] = "msg_json"
    /\ Handling(e, req)
    /\ UNCHANGED <<route, request, headers>>
    /\ inbound' = [inbound EXCEPT ![e] = req.body]
    /\ body' = [body EXCEPT ![e] = m.body]
    /\ create_client(e)
    /\ IF Truthy(m.unmatched)
       THEN /\ respond(e, "error", 400, "application/json",
                       not_found_error(m.unmatched))
            /\ pc' = [pc EXCEPT ![e] = "done"]
       ELSE IF m.body.kind # "dict"
       THEN crash(e)
       ELSE /\ pc' = [pc EXCEPT ![e] = "msg_send"]
            /\ UNCHANGED resp
    /\ UNCHANGED <<sends, upVars, relayVars>>
    /\ UNCHANGED <<raised, config>>

\* the body has arrived: handle_anthropic_messages from request.json() to
\* the 400, or to the call of client.send
messages_json(e, req) ==
    LET b == request_json(req.body)
        m == modify_anthropic_body(b)
    IN
    /\ pc[e] = "msg_json"
    /\ Handling(e, req)
    /\ UNCHANGED <<route, request, headers>>
    /\ inbound' = [inbound EXCEPT ![e] = req.body]
    /\ body' = [body EXCEPT ![e] = m.body]
    /\ IF Truthy(m.unmatched)
       THEN /\ respond(e, "error", 400, "application/json",
                       not_found_error(m.unmatched))
            /\ pc' = [pc EXCEPT ![e] = "done"]
            /\ UNCHANGED connVars
       ELSE IF m.body.kind # "dict"
       THEN \* body.get raises AttributeError
            /\ crash(e)
            /\ UNCHANGED connVars
       ELSE /\ create_client(e)
            /\ pc' = [pc EXCEPT ![e] = "msg_send"]
            /\ UNCHANGED resp
    /\ UNCHANGED <<sends, upVars, relayVars>>
    /\ UNCHANGED <<raised, config>>

\* a send that streams whenever the body's stream is truthy
messages_send_ok_truthy(e, status) ==
    /\ pc[e] = "msg_send"
    /\ sends' = [sends EXCEPT ![e] = @ + 1]
    /\ IF body[e].doc.stream \in {"true", "1"}
       THEN /\ start_stream(e, status)
            /\ UNCHANGED <<upRead, delivered>>
       ELSE /\ ustatus' = [ustatus EXCEPT ![e] = status]
            /\ pc' = [pc EXCEPT ![e] = "msg_aread"]
            /\ UNCHANGED <<ucontent, resp, relayVars>>
    /\ UNCHANGED <<reqVars, connVars>>
    /\ UNCHANGED <<raised, config>>

\* client.send returns: a stream when the body's stream is true,
\* otherwise the handler goes on to read the whole response
messages_send_ok(e, status) ==
    /\ pc[e] = "msg_send"
    /\ sends' = [sends EXCEPT ![e] = @ + 1]
    /\ IF body[e].doc.stream = "true"
       THEN /\ start_stream(e, status)
            /\ UNCHANGED <<upRead, delivered>>
       ELSE /\ ustatus' = [ustatus EXCEPT ![e] = status]
            /\ pc' = [pc EXCEPT ![e] = "msg_aread"]
            /\ UNCHANGED <<ucontent, resp, relayVars>>
    /\ UNCHANGED <<reqVars, connVars>>
    /\ UNCHANGED <<raised, config>>

\* client.build_request raises: client.send is not called
messages_build_fail(e, err) ==
    /\ pc[e] = "msg_send"
    /\ sends' = sends
    /\ fail_502(e, "Anthropic Proxy Error", err)
    /\ UNCHANGED <<reqVars, upVars, relayVars>>

\* await client.send(req, ...) raises
messages_send_fail(e, err) ==
    /\ pc[e] = "msg_send"
    /\ sends' = [sends EXCEPT ![e] = @ + 1]
    /\ fail_502(e, "Anthropic Proxy Error", err)
    /\ UNCHANGED <<reqVars, upVars, relayVars>>

\* content = await r.aread() returns
messages_aread_ok(e, content) ==
    /\ pc[e] = "msg_aread"
    /\ ucontent' = [ucontent EXCEPT ![e] = content]
    /\ pc' = [pc EXCEPT ![e] = "msg_respond"]
    /\ UNCHANGED <<reqVars, connVars, sends, ustatus, resp, relayVars>>
    /\ UNCHANGED <<raised, config>>

\* await r.aread() raises
messages_aread_fail(e, err) ==
    /\ pc[e] = "msg_aread"
    /\ fail_502(e, "Anthropic Proxy Error", err)
    /\ UNCHANGED <<reqVars, sends, upVars, relayVars>>

\* a buffered return that leaves the client open
buffered_return_noclose(e) ==
    /\ UNCHANGED connVars
    /\ respond(e, "full", ustatus[e], "upstream", ucontent[e])
    /\ pc' = [pc EXCEPT ![e] = "done"]

\* await client.aclose(); return Response(content, status_code, headers)
buffered_return(e) ==
    /\ aclose(e, 1)
    /\ respond(e, "full", ustatus[e], "upstream", ucontent[e])
    /\ pc' = [pc EXCEPT ![e] = "done"]

\* await client.aclose(), then building the Response raises inside the
\* try block: the except branch closes the client again and answers 502
buffered_return_raises(e, prefix, err) ==
    /\ raised' = [raised EXCEPT ![e] = err]
    /\ config' = config
    /\ aclose(e, 2)
    /\ respond(e, "error", 502, Absent, error_text(prefix, err))
    /\ pc' = [pc EXCEPT ![e] = "done"]

messages_respond_ok(e) ==
    /\ pc[e] = "msg_respond"
    /\ buffered_return(e)
    /\ UNCHANGED <<reqVars, sends, upVars, relayVars>>
    /\ UNCHANGED <<raised, config>>

messages_respond_fail(e, err) ==
    /\ pc[e] = "msg_respond"
    /\ buffered_return_raises(e, "Anthropic Proxy Error", err)
    /\ UNCHANGED <<reqVars, sends, upVars, relayVars>>

\* ------------------------------------------------------ catch-all forward
\* proxy_all up to its wait for the body in request.body()
proxy_all(e, req) ==
    /\ enter(e, req, "proxy")
    /\ pc' = [pc EXCEPT ![e] = "proxy_body"]
    /\ UNCHANGED <<headers, inbound, body, connVars, sends, upVars, resp,
                   relayVars>>
    /\ UNCHANGED <<raised, config>>

\* the body has arrived: proxy_all from request.body() to the call of
\* client.request; the body is forwarded as it is
proxy_body(e, req) ==
    /\ pc[e] = "proxy_body"
    /\ Handling(e, req)
    /\ UNCHANGED <<route, request>>
    /\ headers' = [headers EXCEPT ![e] = proxy_headers(req.headers)]
    /\ inbound' = [inbound EXCEPT ![e] = req.body]
    /\ body' = [body EXCEPT ![e] = req.body]
    /\ create_client(e)
    /\ pc' = [pc EXCEPT ![e] = "proxy_request"]
    /\ UNCHANGED <<sends, upVars, resp, relayVars>>
    /\ UNCHANGED <<raised, config>>

\* resp = await client.request(...) returns; content = await resp.aread()
proxy_request_ok(e, status, content) ==
    /\ pc[e] = "proxy_request"
    /\ sends' = [sends EXCEPT ![e] = @ + 1]
    /\ ustatus' = [ustatus EXCEPT ![e] = status]
    /\ ucontent' = [ucontent EXCEPT ![e] = content]
    /\ pc' = [pc EXCEPT ![e] = "proxy_respond"]
    /\ UNCHANGED <<reqVars, connVars, resp, relayVars>>
    /\ UNCHANGED <<raised, config>>

\* client.request raises
proxy_request_fail(e, err) ==
    /\ pc[e] = "proxy_request"
    /\ sends' = [sends EXCEPT ![e] = @ + 1]
    /\ fail_502(e, "Proxy Error", err)
    /\ UNCHANGED <<reqVars, upVars, relayVars>>

proxy_respond_ok(e) ==
    /\ pc[e] = "proxy_respond"
    /\ buffered_return(e)
    /\ UNCHANGED <<reqVars, sends, upVars, relayVars>>
    /\ UNCHANGED <<raised, config>>

proxy_respond_fail(e, err) ==
    /\ pc[e] = "proxy_respond"
    /\ buffered_return_raises(e, "Proxy Error", err)
    /\ UNCHANGED <<reqVars, sends, upVars, relayVars>>

\* ------------------------------------------- FastAPI's own routes
\* the OpenAPI document and the documentation pages that FastAPI() serves
\* itself on GET and HEAD, matched before the routes of the handlers
docs_route(e, req) ==
    /\ enter(e, req, "docs")
    /\ respond(e, "local", 200,
               IF req.path = "/openapi.json" THEN "application/json"
               ELSE "text/html",
               req.path)
    /\ pc' = [pc EXCEPT ![e] = "done"]
    /\ UNCHANGED <<headers, inbound, body, connVars, sends, upVars,
                   relayVars>>
    /\ UNCHANGED <<raised, config>>

\* ------------------------------------------------------------ stream relay
\* a relay that loses what it yields
yield_chunk_drop(out, chunk) == out

\* a relay that glues the chunk to the one before it
yield_chunk_merge(out, chunk) ==
    IF out = << >> THEN <<chunk>>
    ELSE [out EXCEPT ![Len(out)] = @ \o chunk]

\* yield chunk: the caller's output grows by the chunk
yield_chunk(out, chunk) == Append(out, chunk)

\* one turn of "async for chunk in response.aiter_bytes(): yield chunk"
stream_generator_chunk(e, chunk) ==
    /\ pc[e] = "streaming"
    /\ Len(upRead[e]) < MaxChunks
    /\ upRead' = [upRead EXCEPT ![e] = Append(@, chunk)]
    /\ delivered' = [delivered EXCEPT ![e] = yield_chunk(@, chunk)]
    /\ UNCHANGED <<pc, reqVars, connVars, sends, upVars, resp, relay>>
    /\ UNCHANGED <<raised, config>>

\* the upstream signals end-of-stream: the generator returns
stream_generator_eos(e) ==
    /\ pc[e] = "streaming"
    /\ relay' = [relay EXCEPT ![e] = "eos"]
    /\ pc' = [pc EXCEPT ![e] = "background"]
    /\ UNCHANGED <<reqVars, connVars, sends, upVars, resp, upRead, delivered>>
    /\ UNCHANGED <<raised, config>>

\* a read raises: except Exception as e: yield str(e).encode()
stream_generator_except(e, err) ==
    /\ pc[e] = "streaming"
    /\ relay' = [relay EXCEPT ![e] = "failed"]
    /\ raised' = [raised EXCEPT ![e] = err]
    /\ config' = config
    /\ delivered' = [delivered EXCEPT ![e] = yield_chunk(@, error_chunk(err))]
    /\ pc' = [pc EXCEPT ![e] = "background"]
    /\ UNCHANGED <<reqVars, connVars, sends, upVars, resp, upRead>>

\* the caller disconnects: the consumption of the generator is cancelled
\* (a cancellation is no Exception, the except branch does not run)
stream_cancel(e) ==
    /\ pc[e] = "streaming"
    /\ relay' = [relay EXCEPT ![e] = "cancelled"]
    /\ pc' = [pc EXCEPT ![e] = "background"]
    /\ UNCHANGED <<reqVars, connVars, sends, upVars, resp, upRead, delivered>>
    /\ UNCHANGED <<raised, config>>

\* a streaming response without its background task
background_close_skip(e) ==
    /\ pc[e] = "background"
    /\ pc' = [pc EXCEPT ![e] = "done"]
    /\ UNCHANGED <<reqVars, connVars, sends, upVars, resp, relayVars, raised,
                 config>>

\* background=client.aclose, run once the response body has ended
background_close(e) ==
    /\ pc[e] = "background"
    /\ aclose(e, 1)
    /\ pc' = [pc EXCEPT ![e] = "done"]
    /\ UNCHANGED <<reqVars, sends, upVars, resp, relayVars>>
    /\ UNCHANGED <<raised, config>>

\* ------------------------------------------------------- specification
\* one step of exchange e, for requests R, upstream statuses S and chunks C
StepOver(e, R, S, C) ==
    \/ \E req \in R : docs_route(e, req)
    \/ \E req \in R : handle_chat_completions(e, req)
    \/ \E req \in R : chat_json(e, req)
    \/ \E s \in S : chat_send_ok(e, s)
    \/ \E err \in ErrTexts : chat_build_fail(e, err)
    \/ \E err \in ErrTexts : chat_send_fail(e, err)
    \/ \E req \in R : handle_anthropic_messages(e, req)
    \/ \E req \in R : messages_json(e, req)
    \/ \E s \in S : messages_send_ok(e, s)
    \/ \E err \in ErrTexts : messages_build_fail(e, err)
    \/ \E err \in ErrTexts : messages_send_fail(e, err)
    \/ \E c \in Contents : messages_aread_ok(e, c)
    \/ \E err \in ErrTexts : messages_aread_fail(e, err)
    \/ messages_respond_ok(e)
    \/ \E err \in ErrTexts : messages_respond_fail(e, err)
    \/ \E req \in R : proxy_all(e, req)
    \/ \E req \in R : proxy_body(e, req)
    \/ \E s \in S, c \in Contents : proxy_request_ok(e, s, c)
    \/ \E err \in ErrTexts : proxy_request_fail(e, err)
    \/ proxy_respond_ok(e)
    \/ \E err \in ErrTexts : proxy_respond_fail(e, err)
    \/ \E c \in C : stream_generator_chunk(e, c)
    \/ stream_generator_eos(e)
    \/ \E err \in ErrTexts : stream_generator_except(e, err)
    \/ stream_cancel(e)
    \/ background_close(e)

Step(e) == StepOver(e, Requests, Statuses, Chunks)

Next == \E e \in Single : Step(e)

Spec == Init /\ [][Next]_vars

\* ------------------------------------- the Anthropic transform alone
\* body, unmatched_model = modify_anthropic_body(body) on the parsed body
transform_once(e) ==
    /\ pc[e] = "transform"
    /\ body' = [body EXCEPT ![e] =
                   modify_anthropic_body(request_json(inbound[e])).body]
    /\ pc' = [pc EXCEPT ![e] = "transformed"]
    /\ UNCHANGED <<config, route, request, inbound, headers, connVars, sends,
                   upVars, resp, relayVars, raised>>

\* modify_anthropic_body run a second time, on the body it returned
transform_again(e) ==
    /\ pc[e] = "transformed"
    /\ body' = [body EXCEPT ![e] = modify_anthropic_body(body[e]).body]
    /\ pc' = [pc EXCEPT ![e] = "transformed_twice"]
    /\ UNCHANGED <<config, route, request, inbound, headers, connVars, sends,
                   upVars, resp, relayVars, raised>>

\* the transform's inputs: a body, and web search enabled or not
InitTransform ==
    /\ config \in {[SourceConfig EXCEPT !.ENABLE_WEB_SEARCH = w] :
                      w \in BOOLEAN}
    /\ pc = [e \in Exch |-> IF e \in Single THEN "transform" ELSE "idle"]
    /\ inbound \in {[e \in Exch |-> IF e \in Single THEN b ELSE NoBody] :
                       b \in TransformBodies}
    /\ route = [e \in Exch |-> "none"]
    /\ request = [e \in Exch |-> NoRequest]
    /\ headers = [e \in Exch |-> NoHeaders]
    /\ body = [e \in Exch |-> NoBody]
    /\ conn = [e \in Exch |-> "none"]
    /\ opens = [e \in Exch |-> 0]
    /\ closes = [e \in Exch |-> 0]
    /\ sends = [e \in Exch |-> 0]
    /\ ustatus = [e \in Exch |-> 0]
    /\ ucontent = [e \in Exch |-> ""]
    /\ resp = [e \in Exch |-> NoResp]
    /\ upRead = [e \in Exch |-> << >>]
    /\ delivered = [e \in Exch |-> << >>]
    /\ relay = [e \in Exch |-> "none"]
    /\ raised = [e \in Exch |-> Absent]

NextTransform == \E e \in Single : transform_once(e) \/ transform_again(e)

SpecTransform == InitTransform /\ [][NextTransform]_vars

\* --------------------------------------- the handlers' outbound headers
InitHeaders ==
    /\ config \in {[SourceConfig EXCEPT !.API_KEY = k] : k \in Credentials}
    /\ Idle

NextHeaders ==
    \E e \in Single :
        \E req \in HeaderRequests :
            \/ handle_chat_completions(e, req)
            \/ handle_anthropic_messages(e, req)
            \/ proxy_all(e, req)
            \/ proxy_body(e, req)

SpecHeaders == InitHeaders /\ [][NextHeaders]_vars

\* ------------------------------------------- two exchanges in flight
\* the event loop runs one step of either exchange
NextConcurrent ==
    \E e \in Exch :
        StepOver(e, ConcurrentRequests, ConcurrentStatuses, ConcurrentChunks)

SpecConcurrent == Init /\ [][NextConcurrent]_vars

\* --------------------------------------------------------------- claims
Done(e) == pc[e] = "done"

IsPrefix(s, t) ==
    /\ Len(s) <= Len(t)
    /\ \A i \in 1..Len(s) : s[i] = t[i]

\* building or sending the request of the exchange raised: no upstream
\* response
SendFailed(e) == ustatus[e] = 0 /\ raised[e] # Absent

\* C1: close is invoked at most once on the client of an exchange, whatever
\* step of the handler fails.
C1_CloseAtMostOnce == \A e \in Exch : closes[e] <= 1

\* C2: once an exchange has ended, every client it opened is closed: the
\* number of clients opened equals the number of clients closed.
C2_OpenedThenClosed ==
    \A e \in Exch :
        Done(e) =>
            /\ opens[e] <= 1
            /\ conn[e] # "open"
            /\ opens[e] = (IF conn[e] = "closed" THEN 1 ELSE 0)

C2_Witness ==
    \E e \in Exch :
        Done(e) /\ opens[e] = 1 /\ conn[e] = "closed" /\ resp[e].status = 502

\* C3: on the messages path a body without a model field (also the empty
\* document that replaces an unparseable body) is answered 400 locally and
\* no client is opened and nothing is sent.
C3_NoModelRejected ==
    \A e \in Exch :
        (/\ route[e] = "messages"
         /\ inbound[e].kind \in {"dict", "unparseable"}
         /\ inbound[e].doc.model = Absent)
        => /\ Done(e)
           /\ resp[e].kind = "error"
           /\ resp[e].status = 400
           /\ opens[e] = 0
           /\ sends[e] = 0

\* C4: on the messages path a model that is a non-empty string and no key of
\* ANTHROPIC_MODEL_MAP is answered 400 with a JSON error naming exactly that
\* identifier, and no client is opened.
C4_UnknownModelRejected ==
    \A e \in Exch :
        (/\ route[e] = "messages"
         /\ inbound[e].kind = "dict"
         /\ inbound[e].doc.model \notin {Absent, ""}
         /\ inbound[e].doc.model \notin DOMAIN ANTHROPIC_MODEL_MAP)
        => /\ Done(e)
           /\ resp[e].kind = "error"
           /\ resp[e].status = 400
           /\ resp[e].media = "application/json"
           /\ resp[e].content =
                  "{\"error\": \"Model '" \o inbound[e].doc.model
                      \o "' not found in ANTHROPIC_MODEL_MAP\"}"
           /\ opens[e] = 0
           /\ sends[e] = 0
           /\ conn[e] = "none"

C4_Witness ==
    \E e \in Exch :
        /\ route[e] = "messages"
        /\ inbound[e].kind = "dict"
        /\ inbound[e].doc.model = "unknown-model"
        /\ resp[e].status = 400

\* C5 (as stated): an unparseable body is answered by a local error and
\* nothing is sent upstream, on the chat and on the messages path.
C5_ParseFailureRejected ==
    \A e \in Exch :
        (route[e] \in {"chat", "messages"} /\ inbound[e].kind = "unparseable")
        => /\ opens[e] = 0
           /\ sends[e] = 0
           /\ (Done(e) => resp[e].kind = "error")

\* C5 (amended): an unparseable body is replaced by the empty document and
\* the handler goes on as for {}; on the chat path a client is opened, the
\* request is built and sent (ending in 502 if that raises) and no local
\* 400 is produced.
C5_ParseFailureAsEmptyDoc ==
    \A e \in Exch :
        (route[e] \in {"chat", "messages"} /\ inbound[e].kind = "unparseable")
        => /\ body[e] = [kind |-> "dict", doc |-> EmptyDoc]
           /\ (route[e] = "chat" =>
                  /\ opens[e] = 1
                  /\ resp[e].status # 400
                  /\ resp[e].kind # "crash"
                  /\ (Done(e) =>
                         \/ sends[e] = 1
                         \/ SendFailed(e) /\ resp[e].status = 502))

C5_Witness ==
    \E e \in Exch :
        /\ route[e] = "chat"
        /\ inbound[e].kind = "unparseable"
        /\ Done(e)
        /\ sends[e] = 1
        /\ resp[e].kind = "stream"

\* C6 (as stated): on every stream that has ended, also one whose read
\* failed, the bytes delivered equal the bytes read from upstream.
C6_ConcatEqual ==
    \A e \in Exch :
        relay[e] \in {"eos", "failed"} =>
            Concat(delivered[e]) = Concat(upRead[e])

\* C6 (amended): on a stream that reached end-of-stream the bytes delivered
\* equal the bytes read; on a stream whose read failed they are the bytes
\* read followed by the bytes of the error description.
C6_ConcatThenError ==
    \A e \in Exch :
        /\ relay[e] = "eos" => Concat(delivered[e]) = Concat(upRead[e])
        /\ relay[e] = "failed" =>
               Concat(delivered[e]) = Concat(upRead[e]) \o raised[e]

C6_Witness ==
    \E e \in Exch :
        /\ relay[e] = "failed"
        /\ raised[e] = "boom"
        /\ Len(upRead[e]) >= 2

\* C7 (as stated): at every point of a relay, also after a read has failed,
\* the chunks yielded are a prefix of the chunks read (the i-th chunk
\* delivered is the i-th chunk read), and at end-of-stream the two sequences
\* are equal.
C7_PrefixAtEveryPoint ==
    \A e \in Exch :
        /\ relay[e] # "none" => IsPrefix(delivered[e], upRead[e])
        /\ relay[e] = "eos" => delivered[e] = upRead[e]

\* C7 (amended): as long as no read has failed the chunks yielded are a
\* prefix of the chunks read, with the same boundaries and in the same
\* order, and at end-of-stream the two sequences are equal; once a read has
\* failed the chunks yielded are all the chunks read, in order and with the
\* same boundaries, followed by exactly one more chunk.
C7_SameChunks ==
    \A e \in Exch :
        /\ relay[e] \in {"running", "cancelled", "eos"} =>
               IsPrefix(delivered[e], upRead[e])
        /\ relay[e] = "eos" => delivered[e] = upRead[e]
        /\ relay[e] = "failed" =>
               /\ IsPrefix(upRead[e], delivered[e])
               /\ Len(delivered[e]) = Len(upRead[e]) + 1

C7_Witness ==
    \E e \in Exch :
        /\ relay[e] = "failed"
        /\ Len(upRead[e]) = 2
        /\ upRead[e][1] # upRead[e][2]
        /\ Len(delivered[e]) = 3
        /\ delivered[e][1] = upRead[e][1]

\* C8: when a read raises mid-stream the relay yields exactly one more chunk,
\* the text of the error, reads nothing more and ends; the client is closed
\* by the time the exchange is done and the committed status stays.
C8_MidStreamFailure ==
    /\ [](\A e \in Exch :
            relay[e] = "failed" =>
                /\ delivered[e] = Append(upRead[e], raised[e])
                /\ pc[e] \in {"background", "done"}
                /\ resp[e].kind = "stream"
                /\ resp[e].status = ustatus[e]
                /\ (Done(e) => conn[e] = "closed" /\ closes[e] = 1))
    /\ [][\A e \in Exch :
            relay[e] = "failed" =>
                /\ upRead'[e] = upRead[e]
                /\ delivered'[e] = delivered[e]
                /\ resp'[e] = resp[e]
                /\ relay'[e] = "failed"]_vars

C8_Witness ==
    \E e \in Exch :
        /\ relay[e] = "failed"
        /\ Done(e)
        /\ Len(upRead[e]) >= 1
        /\ raised[e] = "boom"
        /\ closes[e] = 1

\* C9: when the caller disconnects mid-stream the relay stops without reading
\* another chunk and the client is closed exactly once, by the background
\* task that also closes it on normal completion.
C9_CancelCloses ==
    /\ [](\A e \in Exch :
            relay[e] = "cancelled" =>
                /\ pc[e] \in {"background", "done"}
                /\ delivered[e] = upRead[e]
                /\ (pc[e] = "background" => conn[e] = "open" /\ closes[e] = 0)
                /\ (Done(e) => conn[e] = "closed" /\ closes[e] = 1))
    /\ [][\A e \in Exch :
            relay[e] = "cancelled" =>
                /\ upRead'[e] = upRead[e]
                /\ delivered'[e] = delivered[e]
                /\ relay'[e] = "cancelled"]_vars

C9_Witness ==
    \E e \in Exch :
        /\ relay[e] = "cancelled"
        /\ Done(e)
        /\ Len(upRead[e]) >= 1
        /\ Len(upRead[e]) < MaxChunks

\* C10: when the connect or the send fails the handler closes the client
\* itself, answers 502 with a text that contains the error description, and
\* no relay is started (no chunk is delivered).
C10_SendFailure ==
    \A e \in Exch :
        SendFailed(e) =>
            /\ Done(e)
            /\ conn[e] = "closed"
            /\ closes[e] = 1
            /\ resp[e].kind = "error"
            /\ resp[e].status = 502
            /\ resp[e].content =
                   (CASE route[e] = "chat" -> "Connection Error: "
                      [] route[e] = "messages" -> "Anthropic Proxy Error: "
                      [] route[e] = "proxy" -> "Proxy Error: ") \o raised[e]
            /\ relay[e] = "none"
            /\ delivered[e] = << >>

C10_Witness ==
    \E e \in Exch :
        /\ SendFailed(e)
        /\ route[e] = "messages"
        /\ raised[e] = "boom"
        /\ resp[e].status = 502

\* the exchange was answered before its handler got to the upstream: the
\* 400 of an unmatched model, the 500 of an exception no handler catches,
\* or a page the framework serves itself
AnsweredLocally(e) ==
    \/ resp[e].kind \in {"crash", "local"}
    \/ resp[e].kind = "error" /\ resp[e].status = 400

\* C11 (as stated): an exchange opens at most one client and sends at most
\* one request; one that is not rejected locally has exactly one of each
\* when it ends, a rejected one has none.
C11_OneOfEach ==
    \A e \in Exch :
        /\ opens[e] <= 1
        /\ sends[e] <= 1
        /\ (Done(e) =>
               IF AnsweredLocally(e)
               THEN opens[e] = 0 /\ sends[e] = 0
               ELSE opens[e] = 1 /\ sends[e] = 1)

\* C11 (amended): an exchange opens at most one client and sends at most
\* one request; one answered locally has none of either; any other has
\* opened exactly one client when it ends and has sent exactly one request,
\* unless building the request raised: then nothing was sent, the client
\* is closed and the answer is 502.
C11_OneClientAtMostOneRequest ==
    \A e \in Exch :
        /\ opens[e] <= 1
        /\ sends[e] <= 1
        /\ sends[e] <= opens[e]
        /\ (Done(e) /\ AnsweredLocally(e)) => opens[e] = 0 /\ sends[e] = 0
        /\ (Done(e) /\ ~AnsweredLocally(e)) =>
               /\ opens[e] = 1
               /\ \/ sends[e] = 1
                  \/ /\ sends[e] = 0
                     /\ raised[e] # Absent
                     /\ ustatus[e] = 0
                     /\ resp[e].kind = "error"
                     /\ resp[e].status = 502
                     /\ conn[e] = "closed"
                     /\ delivered[e] = << >>

C11_Witness ==
    \E e \in Exch :
        /\ Done(e)
        /\ route[e] = "messages"
        /\ inbound[e].doc.model = "claude-opus-4-6"
        /\ resp[e].status = 502
        /\ raised[e] = "boom"
        /\ opens[e] = 1
        /\ sends[e] = 0

\* C13: the chat transform never fails: whatever the inbound body is
\* (unparseable, an object, or JSON that is no object) the handler goes on
\* to its outbound request, an unparseable body counting as {}.
C13_ChatNeverFails ==
    \A e \in Exch :
        (route[e] = "chat" /\ pc[e] # "chat_json") =>
            /\ resp[e].kind # "crash"
            /\ opens[e] = 1
            /\ body[e].kind = "dict"
            /\ (inbound[e].kind = "unparseable" => body[e].doc = EmptyDoc)

\* C14: on the chat path the outbound body gains stream_options =
\* {"include_usage": true} exactly when stream is true and stream_options is
\* missing; every other field, and every other body, is forwarded unchanged.
C14_UsagePatch ==
    \A e \in Exch :
        (route[e] = "chat" /\ inbound[e].kind \in {"dict", "unparseable"})
        => LET d == inbound[e].doc
               out == body[e].doc
           IN  /\ body[e].kind = "dict"
               /\ out.model = d.model
               /\ out.stream = d.stream
               /\ out.tools = d.tools
               /\ out.stream_options =
                      (IF d.stream = "true" /\ d.stream_options = Absent
                       THEN "{\"include_usage\": true}"
                       ELSE d.stream_options)

C14_Witness ==
    \E e \in Exch :
        /\ route[e] = "chat"
        /\ inbound[e].kind = "dict"
        /\ inbound[e].doc.stream = "true"
        /\ inbound[e].doc.stream_options = Absent
        /\ body[e].doc.stream_options = "{\"include_usage\": true}"

\* the exchange is dispatched in buffered mode
Buffered(e) ==
    \/ route[e] = "proxy"
    \/ route[e] = "messages" /\ body[e].kind = "dict"
          /\ body[e].doc.stream # "true"

\* C17: in buffered mode the client is closed by the time a response is
\* returned; in streaming mode it is open when the handler returns the
\* response and as long as chunks are relayed, and it is closed only after
\* the relay has ended (end-of-stream, error chunk, or cancellation).
C17_CloseOrder ==
    /\ [](\A e \in Exch :
            /\ (Buffered(e) /\ opens[e] = 1 /\ resp[e].kind # "none") =>
                   conn[e] = "closed" /\ relay[e] = "none"
            /\ resp[e].kind = "full" => conn[e] = "closed"
            /\ pc[e] = "streaming" =>
                   /\ conn[e] = "open"
                   /\ closes[e] = 0
                   /\ resp[e].kind = "stream"
                   /\ relay[e] = "running"
            /\ (relay[e] # "none" /\ conn[e] = "closed") =>
                   relay[e] \in {"eos", "failed", "cancelled"})
    /\ [][\A e \in Exch :
            (relay[e] # "none" /\ conn'[e] # conn[e]) =>
                /\ pc[e] = "background"
                /\ relay[e] \in {"eos", "failed", "cancelled"}
                /\ upRead'[e] = upRead[e]
                /\ delivered'[e] = delivered[e]]_vars

C17_Witness ==
    \E e \in Exch :
        /\ pc[e] = "streaming"
        /\ conn[e] = "open"
        /\ Len(delivered[e]) >= 1
        /\ resp[e].kind = "stream"

\* C18: a request is handled by the one pipeline its method and path select;
\* a chat request is always streamed, whatever its stream field; a messages
\* request is streamed exactly when its stream field is true and buffered
\* otherwise; anything else is a pass-through, buffered, body unchanged.
C18_DispatchByRoute ==
    \A e \in Exch :
        pc[e] # "idle" =>
            LET post == request[e].method = "POST"
                p == request[e].path
                answered == ustatus[e] # 0
            IN
            /\ route[e] =
                  (IF post /\ p \in {"/v1/chat/completions", "/chat/completions"}
                   THEN "chat"
                   ELSE IF post /\ p \in {"/v1/messages", "/messages"}
                   THEN "messages"
                   ELSE "proxy")
            /\ route[e] = "chat" =>
                  /\ pc[e] \in {"chat_json", "chat_send", "streaming",
                                "background", "done"}
                  /\ (answered => relay[e] # "none" /\ resp[e].kind = "stream")
            /\ route[e] = "messages" =>
                  /\ pc[e] \in {"msg_json", "msg_send", "msg_aread",
                                "msg_respond", "streaming", "background",
                                "done"}
                  /\ (answered =>
                         (relay[e] # "none" <=> inbound[e].doc.stream = "true"))
                  /\ (answered /\ inbound[e].doc.stream # "true" =>
                         resp[e].kind \in {"none", "full", "error"})
            /\ route[e] = "proxy" =>
                  /\ pc[e] \in {"proxy_body", "proxy_request", "proxy_respond",
                                "done"}
                  /\ relay[e] = "none"
                  /\ body[e] = inbound[e]
                  /\ resp[e].kind \in {"none", "full", "error"}

C18_Witness ==
    \E e \in Exch :
        /\ route[e] = "chat"
        /\ inbound[e].kind = "dict"
        /\ inbound[e].doc.stream = "false"
        /\ relay[e] = "running"
        /\ Len(delivered[e]) >= 1

\* the transform has run on the body of exchange e
Transformed(e) == pc[e] \in {"transformed", "transformed_twice"}

\* the model of the inbound body is a key of the mapping table
Mapped(e) ==
    /\ inbound[e].kind = "dict"
    /\ inbound[e].doc.model \in DOMAIN ANTHROPIC_MODEL_MAP

\* the list the transform reads tools as: a missing or non-list value is []
AsList(tools) == IF tools.kind = "list" THEN tools.items ELSE << >>

\* how many entries of a tools list are objects of the configured type
CountType(items) ==
    Cardinality({i \in 1..Len(items) :
                    /\ items[i].isdict
                    /\ items[i].type = ZENMUX_WEB_SEARCH_TOOL.type})

\* C12: for a model that is a key of the table the transformed body has the
\* table's value as model, and every other field is as it was, except tools
\* when the tool injection applies.
C12_ModelMapped ==
    \A e \in Exch :
        (pc[e] = "transformed" /\ Mapped(e)) =>
            LET d == inbound[e].doc
                out == body[e].doc
                applies == /\ config.ENABLE_WEB_SEARCH
                           /\ CountType(AsList(d.tools)) = 0
            IN  /\ body[e].kind = "dict"
                /\ out.model = ANTHROPIC_MODEL_MAP[d.model]
                /\ out.stream = d.stream
                /\ out.stream_options = d.stream_options
                /\ out.tools =
                       (IF applies
                        THEN [kind |-> "list",
                              items |-> Append(AsList(d.tools),
                                               ZENMUX_WEB_SEARCH_TOOL)]
                        ELSE d.tools)

C12_Witness ==
    \E e \in Exch :
        /\ pc[e] = "transformed"
        /\ inbound[e].kind = "dict"
        /\ inbound[e].doc.model = "claude-sonnet-4-5"
        /\ inbound[e].doc.stream = "true"
        /\ body[e].doc.model = "anthropic/claude-sonnet-4.5"
        /\ body[e].doc.tools # inbound[e].doc.tools

\* C15: with web search enabled the injection is idempotent: a tools list
\* that already has an entry of the configured type is left as it is, so one
\* such entry stays one after one and after two runs of the transform; and a
\* missing or non-list tools becomes a list with exactly one such entry.
C15_InjectionIdempotent ==
    \A e \in Exch :
        (Transformed(e) /\ Mapped(e) /\ config.ENABLE_WEB_SEARCH) =>
            LET d == inbound[e].doc
                out == body[e].doc
            IN  /\ out.tools.kind = "list"
                /\ (d.tools.kind = "list" /\ CountType(d.tools.items) >= 1) =>
                       out.tools = d.tools
                /\ (d.tools.kind = "list" /\ CountType(d.tools.items) = 1) =>
                       CountType(out.tools.items) = 1
                /\ d.tools.kind # "list" =>
                       /\ CountType(out.tools.items) = 1
                       /\ Len(out.tools.items) = 1

C15_Witness ==
    \E e \in Exch :
        /\ pc[e] = "transformed_twice"
        /\ Mapped(e)
        /\ config.ENABLE_WEB_SEARCH
        /\ inbound[e].doc.tools.kind = "list"
        /\ CountType(inbound[e].doc.tools.items) = 1
        /\ Len(inbound[e].doc.tools.items) = 2
        /\ CountType(body[e].doc.tools.items) = 1

\* C20: when the model is no key of the table the transform returns the body
\* as it got it (model not rewritten, no tool injected); a tool is injected
\* only into a body whose model was remapped.
C20_UnmappedUntouched ==
    \A e \in Exch :
        Transformed(e) =>
            /\ (inbound[e].kind \in {"dict", "nondict"} /\ ~Mapped(e)) =>
                   body[e] = inbound[e]
            /\ (inbound[e].kind = "unparseable") =>
                   body[e] = [kind |-> "dict", doc |-> EmptyDoc]
            /\ (body[e].kind = "dict"
                   /\ body[e].doc.tools # inbound[e].doc.tools) =>
                   /\ Mapped(e)
                   /\ body[e].doc.model =
                          ANTHROPIC_MODEL_MAP[inbound[e].doc.model]

C20_Witness ==
    \E e \in Exch :
        /\ pc[e] = "transformed"
        /\ config.ENABLE_WEB_SEARCH
        /\ inbound[e].kind = "dict"
        /\ inbound[e].doc.model = "unknown-model"
        /\ inbound[e].doc.tools = NoTools
        /\ body[e] = inbound[e]

\* C16: the outbound headers are the inbound headers whose lowercased name
\* is not host, content-length, connection or accept-encoding; with a
\* credential configured, authorization is set to it on every route and
\* x-api-key is set to it on the Anthropic route only; with no credential
\* nothing is added or overwritten.
C16_HeadersByDialect ==
    \A e \in Exch :
        pc[e] \in {"chat_json", "msg_json", "proxy_request"} =>
            LET h == request[e].headers
                out == headers[e]
                key == config.API_KEY
                kept == {k \in DOMAIN h : Lower(k) \notin Dropped}
                stamped == IF key = "" THEN {}
                           ELSE IF route[e] = "messages"
                           THEN {"authorization", "x-api-key"}
                           ELSE {"authorization"}
            IN  /\ DOMAIN out = kept \cup stamped
                /\ \A k \in kept \ stamped : out[k] = h[k]
                /\ "authorization" \in stamped =>
                       out["authorization"] = "Bearer " \o key
                /\ "x-api-key" \in stamped => out["x-api-key"] = key

\* everything exchange e owns
Local(e) ==
    <<pc[e], route[e], request[e], inbound[e], headers[e], body[e], conn[e],
      opens[e], closes[e], sends[e], ustatus[e], ucontent[e], resp[e],
      upRead[e], delivered[e], relay[e], raised[e]>>

\* C19: with two exchanges in flight under any interleaving, each exchange
\* has its own client (it opens at most one, and its connection state is its
\* own), a step of one exchange (a rejection, a connection failure, a
\* mid-stream failure, a close) changes nothing of the other (connection
\* state, chunks delivered, outcome), and the mapping table and the
\* configuration stay as they were loaded.
C19_Isolation ==
    /\ [](/\ config = SourceConfig
          /\ \A e \in Exch : opens[e] <= 1)
    /\ [][/\ config' = config
          /\ \A e1 \in Exch, e2 \in Exch :
                 (e1 # e2 /\ Local(e1)' # Local(e1)) =>
                     Local(e2)' = Local(e2)]_vars

C19_Witness ==
    \E e1 \in Exch, e2 \in Exch :
        /\ e1 # e2
        /\ relay[e1] = "failed"
        /\ conn[e1] = "closed"
        /\ resp[e2].kind = "stream"
        /\ pc[e2] = "streaming"
        /\ Len(delivered[e2]) >= 1
        /\ conn[e2] = "open"

====
